---- MODULE Spec2Model ----
(***************************************************************************)
(* Model of src/newfile.py: the text normaliser, the intent dispatch of    *)
(* main(), the six handlers up to their calls into the computer-algebra    *)
(* backend, and the read/dispatch loop.                                    *)
(*                                                                         *)
(* A Python str is a sequence of one-character strings.  Characters that   *)
(* are not ASCII are written as named tokens, each standing for ONE        *)
(* character: "MUL" U+00D7, "DIV" U+00F7, "SQRT" U+221A, "EMDASH" U+2014,  *)
(* "ENDASH" U+2013, "INTSIGN" U+222B.                                      *)
(*                                                                         *)
(* The backend (sympy) is not part of the repository.  A call into it      *)
(* either returns or raises; what it raises is one of the classes the      *)
(* except clauses of the source tell apart: ImportError, any other         *)
(* subclass of Exception, and KeyboardInterrupt (the interrupt signal      *)
(* delivered while the call runs).                                         *)
(***************************************************************************)
EXTENDS Integers, Sequences, FiniteSets, TLC

VARIABLES
    state,            \* position of main(): "Prompting", "Dispatching", "Terminated"
    text,             \* main's local `text` (the stripped line)
    low,              \* main's local `low`
    route,            \* branch of the if-chain taken for `text` ("none" before dispatch)
    invoked,          \* handlers called in this iteration, in order
    parsed,           \* strings handed to parse_expr in this iteration, in order
    eqParts,          \* handle_equation's text.split('=', 1)
    hret,             \* how the handler ended: "none", "text", "raised"
    raised,           \* exception classes raised inside the handler, in order
    loopExc,          \* exception class that reached main's try, "none" if none
    out,              \* what the iteration printed last
    prevOut,          \* how the iteration before ended: "none", "ok", "error"
    x,                \* module global x (line 36)
    transformations,  \* module global transformations (line 33)
    tracked,          \* history: one line picked to be compared across iterations
    trackedRes,       \* history: route and parser input of its first dispatch
    trackedHits,      \* history: times the tracked line was dispatched, capped
    ns, n1, n2, nphase \* normaliser harness: input, normalize(ns), normalize(n1)

vars == <<state, text, low, route, invoked, parsed, eqParts, hret, raised,
          loopExc, out, prevOut, x, transformations, tracked, trackedRes,
          trackedHits, ns, n1, n2, nphase>>

replVars == <<state, text, low, route, invoked, parsed, eqParts, hret, raised,
              loopExc, out, prevOut, x, transformations, tracked, trackedRes,
              trackedHits>>

normVars == <<ns, n1, n2, nphase>>

----------------------------------------------------------------------------
(* Bounds *)

MaxLen == 3
MaxHits == 2

----------------------------------------------------------------------------
(* Python str primitives *)

\* the whitespace characters among those the model writes lines with
Whitespace == {" ", "\t"}

UpperAlpha == <<"A","B","C","D","E","F","G","H","I","J","K","L","M",
                "N","O","P","Q","R","S","T","U","V","W","X","Y","Z">>
LowerAlpha == <<"a","b","c","d","e","f","g","h","i","j","k","l","m",
                "n","o","p","q","r","s","t","u","v","w","x","y","z">>

LowerChar(c) ==
    IF \E i \in 1..Len(UpperAlpha) : UpperAlpha[i] = c
    THEN LowerAlpha[CHOOSE i \in 1..Len(UpperAlpha) : UpperAlpha[i] = c]
    ELSE c

\* str.lower()
Lower(s) == [i \in 1..Len(s) |-> LowerChar(s[i])]

\* s[n:] (0-based n)
DropFirst(s, n) == IF n >= Len(s) THEN <<>> ELSE SubSeq(s, n + 1, Len(s))

\* s[:-n]
DropLast(s, n) == IF n >= Len(s) THEN <<>> ELSE SubSeq(s, 1, Len(s) - n)

\* str.startswith(p)
StartsWith(s, p) == Len(p) <= Len(s) /\ SubSeq(s, 1, Len(p)) = p

\* str.endswith(p)
EndsWith(s, p) == Len(p) <= Len(s) /\ SubSeq(s, Len(s) - Len(p) + 1, Len(s)) = p

\* p in s
Contains(s, p) ==
    \E i \in 1..(Len(s) - Len(p) + 1) : SubSeq(s, i, i + Len(p) - 1) = p

\* str.lstrip() / str.rstrip() / str.strip()
RECURSIVE LStrip(_)
LStrip(s) == IF s # <<>> /\ Head(s) \in Whitespace THEN LStrip(Tail(s)) ELSE s

RECURSIVE RStrip(_)
RStrip(s) ==
    IF s # <<>> /\ s[Len(s)] \in Whitespace THEN RStrip(DropLast(s, 1)) ELSE s

Strip(s) == RStrip(LStrip(s))

\* str.replace(old, new): left to right, non-overlapping, old non-empty
RECURSIVE Replace(_, _, _)
Replace(s, old, new) ==
    IF Len(s) < Len(old) THEN s
    ELSE IF SubSeq(s, 1, Len(old)) = old
         THEN new \o Replace(DropFirst(s, Len(old)), old, new)
         ELSE <<Head(s)>> \o Replace(Tail(s), old, new)

\* index of the first occurrence of character c in s, 0 if none
FirstIndex(s, c) ==
    IF \E i \in 1..Len(s) : s[i] = c
    THEN CHOOSE i \in 1..Len(s) : s[i] = c /\ \A j \in 1..(i - 1) : s[j] # c
    ELSE 0

\* index of the last occurrence of character c in s, 0 if none
LastIndex(s, c) ==
    IF \E i \in 1..Len(s) : s[i] = c
    THEN CHOOSE i \in 1..Len(s) : s[i] = c /\ \A j \in (i + 1)..Len(s) : s[j] # c
    ELSE 0

\* s.rsplit(c, 1): a plausible slip for split
RSplit1(s, c) ==
    LET i == LastIndex(s, c)
    IN  IF i = 0 THEN <<s>>
        ELSE <<SubSeq(s, 1, i - 1), DropFirst(s, i)>>

\* s.split(c, 1)
Split1(s, c) ==
    LET i == FirstIndex(s, c)
    IN  IF i = 0 THEN <<s>>
        ELSE <<SubSeq(s, 1, i - 1), DropFirst(s, i)>>

\* s.split(None, 1): first whitespace-delimited token, then the rest with
\* the whitespace run between them removed (trailing whitespace is kept)
SplitWs1(s) ==
    LET t == LStrip(s)
        k == IF \E i \in 1..Len(t) : t[i] \in Whitespace
             THEN CHOOSE i \in 1..Len(t) :
                      t[i] \in Whitespace /\ \A j \in 1..(i - 1) : t[j] \notin Whitespace
             ELSE 0
        rest == IF k = 0 THEN <<>> ELSE LStrip(DropFirst(t, k))
    IN  IF t = <<>> THEN <<>>
        ELSE IF rest = <<>> THEN <<IF k = 0 THEN t ELSE SubSeq(t, 1, k - 1)>>
        ELSE <<SubSeq(t, 1, k - 1), rest>>

----------------------------------------------------------------------------
(* normalize, try_parse *)

\* The characters normalize rewrites
Rewritten == {"^", "MUL", "DIV", ":", "SQRT", "EMDASH", "ENDASH"}

\* a slip in the order of the substitutions: ':' is rewritten before the
\* division sign is turned into ':'
normalizeSwapped(s) ==
    LET a == Replace(s, <<"^">>, <<"*", "*">>)
        b == Replace(a, <<"MUL">>, <<"*">>)
        c == Replace(b, <<":">>, <<"/">>)
        d == Replace(c, <<"DIV">>, <<":">>)
        e == Replace(d, <<"SQRT">>, <<"s", "q", "r", "t">>)
        f == Replace(Replace(e, <<"EMDASH">>, <<"-">>), <<"ENDASH">>, <<"-">>)
    IN  Strip(f)

normalize(s) ==
    LET a == Replace(s, <<"^">>, <<"*", "*">>)
        b == Replace(a, <<"MUL">>, <<"*">>)
        c == Replace(b, <<"DIV">>, <<"/">>)
        d == Replace(c, <<":">>, <<"/">>)
        e == Replace(d, <<"SQRT">>, <<"s", "q", "r", "t">>)
        f == Replace(Replace(e, <<"EMDASH">>, <<"-">>), <<"ENDASH">>, <<"-">>)
    IN  Strip(f)

\* a try_parse that forgets to normalise
try_parseRaw(expr) == expr

\* try_parse(expr): the string it hands to parse_expr
try_parse(expr) == normalize(expr)

----------------------------------------------------------------------------
(* Normaliser harness: every string up to MaxLen over NormAlphabet *)

NormAlphabet == Rewritten \cup {" ", "\t", "x", "*"}

RECURSIVE StringsOfLen(_)
StringsOfLen(n) ==
    IF n = 0 THEN {<<>>}
    ELSE {<<c>> \o s : c \in NormAlphabet, s \in StringsOfLen(n - 1)}

NormInputs == UNION {StringsOfLen(n) : n \in 0..MaxLen}

\* main() is not running in the harness
ReplIdle ==
    /\ state = "Idle" /\ text = <<>> /\ low = <<>> /\ route = "none"
    /\ invoked = <<>> /\ parsed = <<>> /\ eqParts = <<>> /\ hret = "none"
    /\ raised = <<>> /\ loopExc = "none" /\ out = "none" /\ prevOut = "none"
    /\ x = "x" /\ transformations = "standard+implicit_multiplication_application"
    /\ tracked = <<>> /\ trackedRes = <<>> /\ trackedHits = 0

InitNorm ==
    /\ ns \in NormInputs
    /\ n1 = <<>> /\ n2 = <<>> /\ nphase = 0
    /\ ReplIdle

NormalizeOnce ==
    /\ nphase = 0
    /\ n1' = normalize(ns)
    /\ nphase' = 1
    /\ UNCHANGED <<ns, n2>>
    /\ UNCHANGED replVars

NormalizeAgain ==
    /\ nphase = 1
    /\ n2' = normalize(n1)
    /\ nphase' = 2
    /\ UNCHANGED <<ns, n1>>
    /\ UNCHANGED replVars

NextNorm == NormalizeOnce \/ NormalizeAgain

SpecNorm == InitNorm /\ [][NextNorm]_vars

----------------------------------------------------------------------------
(* Keywords of the dispatch and of the handlers *)

kwExit == <<"e", "x", "i", "t">>
kwQuit == <<"q", "u", "i", "t">>
kwHelp == <<"h", "e", "l", "p">>
kwPlotSp == <<"p", "l", "o", "t", " ">>
kwPlot == <<"p", "l", "o", "t">>
kwLimit == <<"l", "i", "m", "i", "t">>
kwInt == <<"i", "n", "t">>
kwDiff == <<"d", "i", "f", "f">>
kwDD == <<"d", "/", "d">>
kwDerivative == <<"d", "e", "r", "i", "v", "a", "t", "i", "v", "e">>
kwIntegral == <<"i", "n", "t", "e", "g", "r", "a", "l">>
kwIntegrate == <<"i", "n", "t", "e", "g", "r", "a", "t", "e">>
kwDx == <<"d", "x">>
kwFactor == <<"f", "a", "c", "t", "o", "r">>
kwExpand == <<"e", "x", "p", "a", "n", "d">>
kwSimplify == <<"s", "i", "m", "p", "l", "i", "f", "y">>

----------------------------------------------------------------------------
(* Exceptions *)

\* what a backend call, or the interrupt signal during it, can raise
ExcKinds == {"Exception", "ImportError", "KeyboardInterrupt"}

\* the classes `except Exception` matches
ExceptException == {"Exception", "ImportError"}

\* the classes a bare `except:` matches
ExceptBare == ExcKinds

\* A try block that makes `ncalls` backend calls, the first Len(args) of them
\* parse_expr on args[i]; call number n raises `kind` (n = 0, or n beyond the
\* last call: nothing raises).  `caught` is what its except clause matches.
TryBlock(args, ncalls, n, kind, caught, okMsg, errMsg) ==
    LET fails == n >= 1 /\ n <= ncalls
        handed == IF n <= Len(args) THEN SubSeq(args, 1, n) ELSE args
    IN  IF ~fails
        THEN [parsed |-> args, ret |-> "text", msg |-> okMsg, raised |-> <<>>]
        ELSE IF kind \in caught
        THEN [parsed |-> handed, ret |-> "text", msg |-> errMsg, raised |-> <<kind>>]
        ELSE [parsed |-> handed, ret |-> "raised", msg |-> "none", raised |-> <<kind>>]

----------------------------------------------------------------------------
(* Handlers.  Each yields the strings handed to parse_expr, whether it      *)
(* returned a text or let an exception out, the text's kind and what was    *)
(* raised inside it.                                                       *)

\* backend calls: parse left, parse right, equals / solveset
handle_equation(t, n, kind) ==
    LET parts == Split1(t, "=")
    IN  IF Len(parts) # 2
        THEN \* the unpacking raises ValueError, caught at line 71
             [parsed |-> <<>>, ret |-> "text", msg |-> "equation_error",
              raised |-> <<>>]
        ELSE TryBlock(<<try_parse(parts[1]), try_parse(parts[2])>>, 3, n, kind,
                      ExceptException, "equation_result", "equation_error")

\* backend calls: parse, integrate
handle_integral(t, n, kind) ==
    LET a == Strip(Replace(Replace(Replace(Lower(t), kwIntegral, <<>>),
                                   kwIntegrate, <<>>), <<"INTSIGN">>, <<>>))
        b == IF EndsWith(a, kwDx) THEN Strip(DropLast(a, 2)) ELSE a
    IN  TryBlock(<<try_parse(b)>>, 2, n, kind,
                 ExceptException, "integral_result", "integral_error")

\* a handle_derivative that never drops the d/d token
handle_derivativeNoSplit(t, n, kind) ==
    LET t2 == Strip(Replace(Replace(Lower(t), kwDerivative, <<>>), kwDiff, <<>>))
    IN  TryBlock(<<try_parse(t2)>>, 2, n, kind,
                 ExceptException, "derivative_result", "derivative_error")

\* backend calls: parse, diff
handle_derivative(t, n, kind) ==
    LET t0 == Lower(t)
        parts == SplitWs1(t)
        t1 == IF StartsWith(t0, kwDD) /\ Len(parts) > 1 THEN parts[2] ELSE t0
        t2 == Strip(Replace(Replace(t1, kwDerivative, <<>>), kwDiff, <<>>))
    IN  TryBlock(<<try_parse(t2)>>, 2, n, kind,
                 ExceptException, "derivative_result", "derivative_error")

\* backend calls: parse, doit
handle_limit(t, n, kind) ==
    TryBlock(<<try_parse(t)>>, 2, n, kind, ExceptBare, "limit_result", "limit_hint")

\* a handle_plot whose only except clause is `except ImportError`
handle_plotImportOnly(t, n, kind) ==
    TryBlock(<<try_parse(Strip(DropFirst(t, 4)))>>, 2, n, kind,
             {"ImportError"}, "plot_done", "plot_missing_dependency")

\* backend calls: parse, plot
handle_plot(t, n, kind) ==
    LET expr_str == Strip(DropFirst(t, 4))
    IN  TryBlock(<<try_parse(expr_str)>>, 2, n, kind, ExceptException, "plot_done",
                 IF kind = "ImportError" THEN "plot_missing_dependency"
                                         ELSE "plot_error")

\* backend calls: parse, then for an ordinary expression evalf (inside its
\* own try with a bare except) and simplify.  `ev` is what evalf raises
\* ("none": it returns); n = 1 is the parse, n = 2 is simplify.
handle_other(t, n, kind, ev) ==
    LET s_norm == normalize(t)
        lw == Lower(s_norm)
    IN  IF StartsWith(lw, kwFactor) \/ StartsWith(lw, kwExpand)
           \/ StartsWith(lw, kwSimplify)
        THEN TryBlock(<<try_parse(s_norm)>>, 1, n, kind,
                      ExceptException, "other_result", "other_error")
        ELSE IF n = 1
        THEN TryBlock(<<try_parse(s_norm)>>, 1, n, kind,
                      ExceptException, "other_report", "other_error")
        ELSE LET swallowed == IF ev = "none" THEN <<>> ELSE <<ev>>
                 rest == TryBlock(<<try_parse(s_norm)>>, 2, n, kind,
                                  ExceptException, "other_report", "other_error")
             IN  [rest EXCEPT !.raised = swallowed \o @]

----------------------------------------------------------------------------
(* Input lines *)

Heads ==
    { <<>>,
      <<"e", "x", "i", "t">>,
      <<"Q", "u", "i", "t">>,
      <<"h", "e", "l", "p">>,
      <<"p", "l", "o", "t", " ">>,
      <<"p", "l", "o", "t">>,
      <<"l", "i", "m", "i", "t">>,
      <<"i", "n", "t">>,
      <<"d", "i", "f", "f">>,
      <<"d", "/", "d", "x", " ">>,
      <<"d", "/", "d", "x">>,
      <<"D", "/", "D", "y", "\t">>,
      <<"d", "e", "r", "i", "v", "a", "t", "i", "v", "e", " ">>,
      <<"I", "n", "t", "e", "g", "r", "a", "l", " ">>,
      <<"INTSIGN">>,
      <<"f", "a", "c", "t", "o", "r">>,
      <<"2">> }

\* heads that are followed by a tail
TailHeads ==
    { <<>>,
      <<"p", "l", "o", "t", " ">>,
      <<"l", "i", "m", "i", "t">>,
      <<"i", "n", "t">>,
      <<"d", "i", "f", "f">>,
      <<"d", "/", "d", "x", " ">>,
      <<"I", "n", "t", "e", "g", "r", "a", "l", " ">>,
      <<"2">> }

Bodies ==
    { <<>>,
      <<"x", "^", "2">> }

Tails ==
    { <<"=", "0">>,
      <<"=", "x", "=", "1">>,
      <<" ", "d", "x">>,
      <<" ", "l", "i", "m", "i", "t">>,
      <<"i", "n", "t", "e", "g", "r", "a", "t", "e">> }

\* "(x/2)", "d/dx(x/2)" with the division sign, "plot" and a root sign,
\* " x:2<tab>", the integral sign and "x=0", "2x= x^2", a blank line
OtherLines ==
    { <<"(", "x", "DIV", "2", ")">>,
      <<"d", "/", "d", "x", "(", "x", "DIV", "2", ")">>,
      <<"p", "l", "o", "t", " ", "SQRT", "x">>,
      <<" ", "x", ":", "2", "\t">>,
      <<"INTSIGN", "x", "=", "0">>,
      <<"2", "x", "=", " ", "x", "^", "2">>,
      <<" ", " ">> }

\* what input() returns
RawLines ==
    {h \o b : h \in Heads, b \in Bodies}
        \cup {h \o <<"x">> \o t : h \in TailHeads, t \in Tails}
        \cup OtherLines

\* "d/dx x^2", "x^2=0"
TrackedLines ==
    { <<"d", "/", "d", "x", " ", "x", "^", "2">>,
      <<"x", "^", "2", "=", "0">> }

\* the backend faults of one handler run: which call raises, and what
Faults ==
    {[n |-> 0, kind |-> "Exception"]}
        \cup [n : 1..3, kind : ExcKinds]

----------------------------------------------------------------------------
(* main(): the if-chain *)

\* ['exit', 'quit']
ExitCommandsOnlyExit == {kwExit}

ExitCommands == {kwExit, kwQuit}

\* the chain with the integral test placed before the equation test
ClassifySwapped(t, lw) ==
    IF lw \in ExitCommands THEN "exit"
    ELSE IF lw = kwHelp THEN "help"
    ELSE IF StartsWith(lw, kwPlotSp) THEN "plot"
    ELSE IF Contains(lw, kwIntegral) \/ Contains(lw, kwIntegrate)
            \/ Contains(t, <<"INTSIGN">>) THEN "integral"
    ELSE IF Contains(t, <<"=">>)
            /\ ~(StartsWith(lw, kwLimit) \/ StartsWith(lw, kwInt)
                 \/ StartsWith(lw, kwDiff) \/ StartsWith(lw, kwPlot)) THEN "equation"
    ELSE IF StartsWith(lw, kwDD) \/ StartsWith(lw, kwDiff)
            \/ StartsWith(lw, kwDerivative) THEN "derivative"
    ELSE IF Contains(lw, kwLimit) THEN "limit"
    ELSE "other"

\* an error flag left by the line before sends the next line to the
\* generic branch
ClassifyAfterError(t, lw) ==
    IF prevOut = "error" THEN "other"
    ELSE IF lw \in ExitCommands THEN "exit"
    ELSE IF lw = kwHelp THEN "help"
    ELSE IF StartsWith(lw, kwPlotSp) THEN "plot"
    ELSE IF Contains(t, <<"=">>)
            /\ ~(StartsWith(lw, kwLimit) \/ StartsWith(lw, kwInt)
                 \/ StartsWith(lw, kwDiff) \/ StartsWith(lw, kwPlot)) THEN "equation"
    ELSE IF Contains(lw, kwIntegral) \/ Contains(lw, kwIntegrate)
            \/ Contains(t, <<"INTSIGN">>) THEN "integral"
    ELSE IF StartsWith(lw, kwDD) \/ StartsWith(lw, kwDiff)
            \/ StartsWith(lw, kwDerivative) THEN "derivative"
    ELSE IF Contains(lw, kwLimit) THEN "limit"
    ELSE "other"

Classify(t, lw) ==
    IF lw \in ExitCommands THEN "exit"
    ELSE IF lw = kwHelp THEN "help"
    ELSE IF StartsWith(lw, kwPlotSp) THEN "plot"
    ELSE IF Contains(t, <<"=">>)
            /\ ~(StartsWith(lw, kwLimit) \/ StartsWith(lw, kwInt)
                 \/ StartsWith(lw, kwDiff) \/ StartsWith(lw, kwPlot)) THEN "equation"
    ELSE IF Contains(lw, kwIntegral) \/ Contains(lw, kwIntegrate)
            \/ Contains(t, <<"INTSIGN">>) THEN "integral"
    ELSE IF StartsWith(lw, kwDD) \/ StartsWith(lw, kwDiff)
            \/ StartsWith(lw, kwDerivative) THEN "derivative"
    ELSE IF Contains(lw, kwLimit) THEN "limit"
    ELSE "other"

\* line 179, reached only past the `if not text: continue`
ComputeLow(t, old) == IF t = <<>> THEN old ELSE Lower(t)

\* a loop with no `except Exception` clause: the exception ends the process
LoopCatchInterruptOnly(exc) ==
    IF exc = "KeyboardInterrupt"
    THEN [state |-> "Terminated", out |-> "interrupted"]
    ELSE [state |-> "Terminated", out |-> "traceback"]

\* the except clauses of main's try
LoopCatch(exc) ==
    IF exc = "KeyboardInterrupt"
    THEN [state |-> "Terminated", out |-> "interrupted"]
    ELSE [state |-> "Prompting", out |-> "program_error"]

ErrorOuts ==
    {"program_error", "equation_error", "integral_error", "derivative_error",
     "limit_hint", "plot_missing_dependency", "plot_error", "other_error"}

OutClass(o, prev) ==
    IF o = "none" THEN prev ELSE IF o \in ErrorOuts THEN "error" ELSE "ok"

----------------------------------------------------------------------------
(* main(): the loop *)

NormIdle == ns = <<>> /\ n1 = <<>> /\ n2 = <<>> /\ nphase = 0

Init ==
    /\ state = "Prompting"
    /\ text = <<>> /\ low = <<>>
    /\ route = "none" /\ invoked = <<>> /\ parsed = <<>> /\ eqParts = <<>>
    /\ hret = "none" /\ raised = <<>> /\ loopExc = "none"
    /\ out = "none" /\ prevOut = "none"
    /\ x = "x"
    /\ transformations = "standard+implicit_multiplication_application"
    /\ tracked \in TrackedLines /\ trackedRes = <<>> /\ trackedHits = 0
    /\ NormIdle

\* a new iteration starts: nothing of the last one is kept but text and low
NewIteration ==
    /\ route' = "none" /\ invoked' = <<>> /\ parsed' = <<>> /\ eqParts' = <<>>
    /\ hret' = "none" /\ raised' = <<>>
    /\ prevOut' = OutClass(out, prevOut)
    /\ UNCHANGED <<x, transformations, tracked, trackedRes, trackedHits>>
    /\ UNCHANGED normVars

\* lines 175-179: input() returns a line
ReadLine ==
    /\ state = "Prompting"
    /\ \E raw \in RawLines :
          LET s == Strip(raw)
          IN  /\ text' = s
              /\ low' = ComputeLow(s, low)
              /\ state' = IF s = <<>> THEN "Prompting" ELSE "Dispatching"
    /\ out' = "none" /\ loopExc' = "none"
    /\ NewIteration

\* line 175: input() raises EOFError at end of input
ReadEOF ==
    /\ state = "Prompting"
    /\ LET c == LoopCatch("Exception")
       IN  state' = c.state /\ out' = c.out
    /\ loopExc' = "Exception"
    /\ UNCHANGED <<text, low>>
    /\ NewIteration

\* line 175: the interrupt signal arrives while input() waits
ReadInterrupt ==
    /\ state = "Prompting"
    /\ LET c == LoopCatch("KeyboardInterrupt")
       IN  state' = c.state /\ out' = c.out
    /\ loopExc' = "KeyboardInterrupt"
    /\ UNCHANGED <<text, low>>
    /\ NewIteration

Track(rt, p) ==
    IF text = tracked
    THEN /\ trackedRes' = IF trackedRes = <<>>
                          THEN <<[route |-> rt, parsed |-> p]>> ELSE trackedRes
         /\ trackedHits' = IF trackedHits < MaxHits THEN trackedHits + 1 ELSE trackedHits
    ELSE UNCHANGED <<trackedRes, trackedHits>>

Keep == UNCHANGED <<text, low, prevOut, x, transformations, tracked>>
            /\ UNCHANGED normVars

\* lines 181-183
DoExit ==
    /\ state = "Dispatching"
    /\ Classify(text, low) = "exit"
    /\ route' = "exit" /\ out' = "farewell" /\ state' = "Terminated"
    /\ Track("exit", <<>>)
    /\ UNCHANGED <<invoked, parsed, eqParts, hret, raised, loopExc>>
    /\ Keep

\* lines 185-187
DoHelp ==
    /\ state = "Dispatching"
    /\ Classify(text, low) = "help"
    /\ route' = "help" /\ invoked' = <<"show_help">>
    /\ out' = "help" /\ state' = "Prompting"
    /\ Track("help", <<>>)
    /\ UNCHANGED <<parsed, eqParts, hret, raised, loopExc>>
    /\ Keep

\* print(handle_X(text)); continue -- or the exception it lets out, caught
\* by main's except clauses
Finish(r, rt, h) ==
    /\ route' = rt /\ invoked' = <<h>>
    /\ parsed' = r.parsed /\ hret' = r.ret /\ raised' = r.raised
    /\ IF r.ret = "text"
       THEN state' = "Prompting" /\ out' = r.msg /\ loopExc' = "none"
       ELSE LET e == r.raised[Len(r.raised)]
                c == LoopCatch(e)
            IN  state' = c.state /\ out' = c.out /\ loopExc' = e
    /\ Track(rt, r.parsed)
    /\ Keep

\* lines 189-191
DoPlot ==
    /\ state = "Dispatching"
    /\ Classify(text, low) = "plot"
    /\ \E f \in Faults : Finish(handle_plot(text, f.n, f.kind), "plot", "handle_plot")
    /\ UNCHANGED eqParts

\* lines 193-195
DoEquation ==
    /\ state = "Dispatching"
    /\ Classify(text, low) = "equation"
    /\ \E f \in Faults :
          Finish(handle_equation(text, f.n, f.kind), "equation", "handle_equation")
    /\ eqParts' = Split1(text, "=")

\* lines 197-199
DoIntegral ==
    /\ state = "Dispatching"
    /\ Classify(text, low) = "integral"
    /\ \E f \in Faults :
          Finish(handle_integral(text, f.n, f.kind), "integral", "handle_integral")
    /\ UNCHANGED eqParts

\* lines 201-203
DoDerivative ==
    /\ state = "Dispatching"
    /\ Classify(text, low) = "derivative"
    /\ \E f \in Faults :
          Finish(handle_derivative(text, f.n, f.kind), "derivative",
                 "handle_derivative")
    /\ UNCHANGED eqParts

\* lines 205-207
DoLimit ==
    /\ state = "Dispatching"
    /\ Classify(text, low) = "limit"
    /\ \E f \in Faults : Finish(handle_limit(text, f.n, f.kind), "limit", "handle_limit")
    /\ UNCHANGED eqParts

\* line 210
DoOther ==
    /\ state = "Dispatching"
    /\ Classify(text, low) = "other"
    /\ \E f \in Faults, ev \in ExcKinds \cup {"none"} :
          Finish(handle_other(text, f.n, f.kind, ev), "other", "handle_other")
    /\ UNCHANGED eqParts

Next ==
    \/ ReadLine
    \/ ReadEOF
    \/ ReadInterrupt
    \/ DoExit
    \/ DoHelp
    \/ DoPlot
    \/ DoEquation
    \/ DoIntegral
    \/ DoDerivative
    \/ DoLimit
    \/ DoOther

Spec == Init /\ [][Next]_vars

----------------------------------------------------------------------------
(* Properties *)

IsPrefix(a, b) == Len(a) <= Len(b) /\ SubSeq(b, 1, Len(a)) = a

HandlerRoutes == {"plot", "equation", "integral", "derivative", "limit", "other"}

HandlerTexts ==
    {"equation_result", "equation_error", "integral_result", "integral_error",
     "derivative_result", "derivative_error", "limit_result", "limit_hint",
     "plot_done", "plot_missing_dependency", "plot_error",
     "other_result", "other_report", "other_error"}

\* the dispatch of `text` has run
Dispatched == state # "Dispatching" /\ route # "none"

\* The eight rules as the dispatch contract lists them, on a line l
RuleHolds(k, l) ==
    LET lw == Lower(l)
    IN  CASE k = 1 -> lw = kwExit \/ lw = kwQuit
          [] k = 2 -> lw = kwHelp
          [] k = 3 -> StartsWith(lw, kwPlotSp)
          [] k = 4 -> /\ \E i \in 1..Len(l) : l[i] = "="
                      /\ \A p \in {kwLimit, kwInt, kwDiff, kwPlot} : ~StartsWith(lw, p)
          [] k = 5 -> \/ \E p \in {kwIntegral, kwIntegrate} : Contains(lw, p)
                      \/ \E i \in 1..Len(l) : l[i] = "INTSIGN"
          [] k = 6 -> \E p \in {kwDD, kwDiff, kwDerivative} : StartsWith(lw, p)
          [] k = 7 -> Contains(lw, kwLimit)
          [] OTHER -> TRUE

FirstMatch(l) == CHOOSE k \in 1..8 : RuleHolds(k, l) /\ \A j \in 1..(k - 1) : ~RuleHolds(j, l)

RouteOfRule ==
    <<"exit", "help", "plot", "equation", "integral", "derivative", "limit", "other">>

CalledOfRule ==
    << <<>>, <<"show_help">>, <<"handle_plot">>, <<"handle_equation">>,
       <<"handle_integral">>, <<"handle_derivative">>, <<"handle_limit">>,
       <<"handle_other">> >>

\* C1: every non-empty stripped line takes exactly one route, the first rule
\* of the fixed order that matches it; exactly one branch of the chain can
\* run for it, and that branch calls exactly its own handler (none for exit).
C1_FirstMatchingRoute ==
    /\ state = "Dispatching" =>
          /\ text # <<>>
          /\ Cardinality({r \in 1..8 : Classify(text, low) = RouteOfRule[r]}) = 1
          /\ Classify(text, low) = RouteOfRule[FirstMatch(text)]
    /\ Dispatched =>
          /\ route = RouteOfRule[FirstMatch(text)]
          /\ invoked = CalledOfRule[FirstMatch(text)]

\* a line that matches rules 4 and 6 went to the equation handler
C1_Witness ==
    /\ Dispatched /\ route = "equation"
    /\ RuleHolds(4, text) /\ RuleHolds(6, text)
    /\ invoked = <<"handle_equation">>

\* C2: the loop is Terminated only by an exit/quit line or by the interrupt;
\* any other exception that reaches the loop is reported as the generic
\* program error and the loop is back at Prompting.
C2_TerminatesOnlyByExitOrInterrupt ==
    /\ state = "Terminated" =>
          \/ route = "exit" /\ out = "farewell" /\ RuleHolds(1, text)
          \/ loopExc = "KeyboardInterrupt" /\ out = "interrupted"
    /\ loopExc \in ExceptException =>
          state = "Prompting" /\ out = "program_error"

\* end of input was reported and the loop prompts again
C2_Witness ==
    loopExc = "Exception" /\ state = "Prompting" /\ out = "program_error"

\* C3: an interrupt raised anywhere in an iteration, inside a handler
\* included, ends the loop with the farewell of the interrupt clause.
C3_InterruptTerminates ==
    (loopExc = "KeyboardInterrupt"
        \/ \E i \in 1..Len(raised) : raised[i] = "KeyboardInterrupt")
    => state = "Terminated" /\ out = "interrupted"

\* C4: an exception of the backend never leaves a handler: the handler
\* returns one of its texts, and the loop's own except clause is not used.
C4_HandlersReturnText ==
    /\ (Dispatched /\ route \in HandlerRoutes /\ raised # <<>>
           /\ raised[Len(raised)] \in ExceptException)
       => hret = "text" /\ loopExc = "none" /\ out \in HandlerTexts
    /\ hret = "raised" => raised[Len(raised)] \notin ExceptException

\* the plot backend is missing and handle_plot says so
C4_Witness ==
    /\ Dispatched /\ route = "plot" /\ raised = <<"ImportError">>
    /\ hret = "text" /\ out = "plot_missing_dependency"

\* C5: normalize(normalize(s)) = normalize(s)
C5_NormalizeIdempotent == nphase = 2 => n2 = n1

\* an input with a blank in front and a division sign, normalised twice
C5_Witness ==
    /\ nphase = 2 /\ Len(ns) >= 2
    /\ ns[1] = " " /\ ns[Len(ns)] = "DIV"
    /\ n1 # ns /\ n1 # <<>>

\* C6: the globals are never written, and a line dispatched again takes the
\* route and reaches the parser with the text it did the first time,
\* whatever was read in between (a run cut short by a fault hands over a
\* prefix of the same strings).
C6_NoStateAcrossIterations ==
    /\ x = "x"
    /\ transformations = "standard+implicit_multiplication_application"
    /\ (Dispatched /\ text = tracked /\ trackedRes # <<>>) =>
          /\ route = trackedRes[1].route
          /\ \/ IsPrefix(parsed, trackedRes[1].parsed)
             \/ IsPrefix(trackedRes[1].parsed, parsed)

\* the same line dispatched a second time, right after a line that failed
C6_Witness ==
    /\ Dispatched /\ text = tracked /\ trackedHits >= 2
    /\ prevOut = "error" /\ parsed # <<>>

\* C7: from a line equal to exit or quit up to case, the next step prints
\* the farewell and ends the loop without calling a handler or the parser,
\* and nothing is read or printed once the loop has ended.
C7_ExitTerminates ==
    [][ /\ (state = "Dispatching" /\ RuleHolds(1, text)) =>
              /\ state' = "Terminated" /\ out' = "farewell"
              /\ invoked' = <<>> /\ parsed' = <<>>
        /\ state = "Terminated" => UNCHANGED <<state, text, out, invoked>> ]_vars

\* "Quit" ended the loop
C7_Witness ==
    /\ state = "Terminated" /\ route = "exit" /\ out = "farewell"
    /\ text # low /\ invoked = <<>>

\* C8: no string handed to parse_expr holds a character normalize rewrites
\* or starts or ends with whitespace.
C8_ParserInputNormalized ==
    \A i \in 1..Len(parsed) :
        /\ \A j \in 1..Len(parsed[i]) : parsed[i][j] \notin Rewritten
        /\ parsed[i] # <<>> =>
              /\ parsed[i][1] \notin Whitespace
              /\ parsed[i][Len(parsed[i])] \notin Whitespace

\* the right side of an equation, written with '^' and a blank after '=',
\* reached the parser
C8_Witness ==
    /\ Dispatched /\ Len(parsed) = 2
    /\ \E j \in 1..Len(eqParts[2]) : eqParts[2][j] = "^"
    /\ eqParts[2][1] = " "

\* the first token of a line and what follows the whitespace after it
HasWhitespace(l) == \E i \in 1..Len(l) : l[i] \in Whitespace

Remainder(l) ==
    LET k == CHOOSE i \in 1..Len(l) :
                 l[i] \in Whitespace /\ \A j \in 1..(i - 1) : l[j] \notin Whitespace
        m == CHOOSE i \in (k + 1)..Len(l) :
                 l[i] \notin Whitespace /\ \A j \in k..(i - 1) : l[j] \in Whitespace
    IN  SubSeq(l, m, Len(l))

RemoveKeywords(s) == Strip(Replace(Replace(s, kwDerivative, <<>>), kwDiff, <<>>))

DDLine == Dispatched /\ route = "derivative" /\ StartsWith(Lower(text), kwDD)

\* C9 as stated: on a d/d line the parser gets the remainder of the line
\* only, and never the d/d token.
C9_TokenNeverParsed ==
    (DDLine /\ parsed # <<>>) => ~StartsWith(parsed[1], kwDD)

\* C9 amended: when whitespace follows the first token, the parser gets the
\* remainder (less the substrings derivative and diff, normalised); when
\* the line is one token, it gets the whole lowercased line treated the
\* same way, the d/d token with it.
C9_TokenDroppedWhenFollowedByWhitespace ==
    DDLine =>
        /\ Len(parsed) = 1
        /\ parsed[1] = IF HasWhitespace(text)
                       THEN normalize(RemoveKeywords(Remainder(text)))
                       ELSE normalize(RemoveKeywords(Lower(text)))

\* "D/Dy<tab>x^2": the parser got x**2
C9_Witness ==
    /\ DDLine /\ HasWhitespace(text) /\ text # Lower(text)
    /\ parsed = << <<"x", "*", "*", "2">> >>

\* C10: the equation handler's two parts are the text before the first '='
\* and everything after it, and there are always two.
C10_SplitAtFirstEquals ==
    (Dispatched /\ route = "equation") =>
        /\ Len(eqParts) = 2
        /\ eqParts[1] \o <<"=">> \o eqParts[2] = text
        /\ \A i \in 1..Len(eqParts[1]) : eqParts[1][i] # "="
        /\ parsed # <<>> /\ parsed[1] = normalize(eqParts[1])
        /\ Len(parsed) = 2 => parsed[2] = normalize(eqParts[2])

\* an equation with a second '=' in its right side
C10_Witness ==
    /\ Dispatched /\ route = "equation" /\ Len(parsed) = 2
    /\ \E i \in 1..Len(eqParts[2]) : eqParts[2][i] = "="

====
